---- MODULE Spec2Model ----
(***************************************************************************)
(* mktestslob.py: the script that writes the test fixture test.slob        *)
(* through the slob library's writer.                                      *)
(*                                                                         *)
(* The script is a straight line of library calls inside one `with` block. *)
(* The model follows its control flow call by call.  The library is not    *)
(* part of the repository: each call into it either returns or raises,     *)
(* and the model takes both outcomes at every call.  What the script asks  *)
(* of the library is recorded, call by call with its arguments, in `calls`.*)
(*                                                                         *)
(* A Python str is modelled as the sequence of its code points, a bytes    *)
(* object as the sequence of its byte values.                              *)
(*                                                                         *)
(* Several executions of the script are modelled side by side (Runs), so   *)
(* that statements comparing two executions can be checked.                *)
(***************************************************************************)
EXTENDS Naturals, Sequences, FiniteSets

\* Number of executions of the script modelled side by side.
NumRuns == 2

Runs == 1..NumRuns

VARIABLES
    pc,       \* pc[r]: the statement run r executes next
    calls,    \* calls[r]: the library calls run r has issued so far, in order
    exc,      \* exc[r]: the call whose exception is in flight, or "none"
    writer,   \* writer[r]: "none", "open" (inside the with block) or "closed"
    outcome   \* outcome[r]: "running", "ok" (exit status 0) or "error" (traceback)

vars == <<pc, calls, exc, writer, outcome>>

----------------------------------------------------------------------------
(* The literals of the script.                                             *)

\* 'text/plain; charset=utf-8'
PLAIN_TEXT ==
    <<116,101,120,116,47,112,108,97,105,110,59,32,
      99,104,97,114,115,101,116,61,117,116,102,45,56>>

\* 'test.slob'
FileName == <<116,101,115,116,46,115,108,111,98>>

\* 'Hello, Earth!'
HelloEarth == <<72,101,108,108,111,44,32,69,97,114,116,104,33>>

\* 'earth', 'terra'
KeyEarth == <<101,97,114,116,104>>
KeyTerra == <<116,101,114,114,97>>

\* 'земля' (five Cyrillic code points)
AliasKey == <<1079,1077,1084,1083,1103>>

\* The alias pointing at 'mars', a key that is added only later.
AliasTargetMars == <<109,97,114,115>>

\* the target of the alias: 'earth'
AliasTarget == <<101,97,114,116,104>>

\* 'Hello, Mars!'
HelloMars == <<72,101,108,108,111,44,32,77,97,114,115,33>>

\* 'mars'
KeyMars == <<109,97,114,115>>

\* "sometag", "xyz"
Tag1Name  == <<115,111,109,101,116,97,103>>
Tag1Value == <<120,121,122>>

\* The second tag written with the first tag's name.
Tag2NameSame == <<115,111,109,101,116,97,103>>

\* "some.other.tag", "abc"
Tag2Name  == <<115,111,109,101,46,111,116,104,101,114,46,116,97,103>>
Tag2Value == <<97,98,99>>

----------------------------------------------------------------------------
(* str.encode('utf-8')                                                     *)

\* The bytes of one code point in UTF-8.
Utf8Char(cp) ==
    IF cp < 128 THEN <<cp>>
    ELSE IF cp < 2048 THEN <<192 + (cp \div 64), 128 + (cp % 64)>>
    ELSE IF cp < 65536 THEN
        <<224 + (cp \div 4096), 128 + ((cp \div 64) % 64), 128 + (cp % 64)>>
    ELSE
        <<240 + (cp \div 262144), 128 + ((cp \div 4096) % 64),
          128 + ((cp \div 64) % 64), 128 + (cp % 64)>>

RECURSIVE Utf8Tail(_)
Utf8Tail(s) ==
    IF s = <<>> THEN <<>> ELSE Utf8Char(Head(s)) \o Utf8Tail(Tail(s))

\* A mis-encoding: two bytes per code point (UTF-16, little endian).
RECURSIVE Utf16Encode(_)
Utf16Encode(s) ==
    IF s = <<>> THEN <<>>
    ELSE <<Head(s) % 256, Head(s) \div 256>> \o Utf16Encode(Tail(s))

Utf8Encode(s) == Utf8Tail(s)

----------------------------------------------------------------------------
(* The calls, as the script writes them.                                   *)

\* A call: the function or method, its positional and its keyword arguments.
MkCall(op, args, kwargs) == [op |-> op, args |-> args, kwargs |-> kwargs]

CreateCall == MkCall("create", <<FileName>>, {})

Add1Call ==
    MkCall("add", <<Utf8Encode(HelloEarth), KeyEarth, KeyTerra>>,
           {<<"content_type", PLAIN_TEXT>>})

AliasCall == MkCall("add_alias", <<AliasKey, AliasTarget>>, {})

Add2Call ==
    MkCall("add", <<Utf8Encode(HelloMars), KeyMars>>,
           {<<"content_type", PLAIN_TEXT>>})

Tag1Call == MkCall("tag", <<Tag1Name, Tag1Value>>, {})

Tag2Call == MkCall("tag", <<Tag2Name, Tag2Value>>, {})

\* The with statement's call of the writer's __exit__.
ExitCall == MkCall("__exit__", <<>>, {})

----------------------------------------------------------------------------
(* Control flow.                                                           *)

Init ==
    /\ pc = [r \in Runs |-> "create"]
    /\ calls = [r \in Runs |-> <<>>]
    /\ exc = [r \in Runs |-> "none"]
    /\ writer = [r \in Runs |-> "none"]
    /\ outcome = [r \in Runs |-> "running"]

\* The statements of the with block, in the order the script lists them;
\* "exit" is the end of the block.
StmtOrder == <<"add1", "alias", "add2", "tag1", "tag2", "exit">>

\* The alias statement written after the second add.
NextStmtSwapped(at) ==
    CASE at = "add1"  -> "add2"
      [] at = "add2"  -> "alias"
      [] at = "alias" -> "tag1"
      [] at = "tag1"  -> "tag2"
      [] at = "tag2"  -> "exit"

\* The block ending after the second add, the tag statements left out.
NextStmtSkipTags(at) ==
    CASE at = "add1"  -> "alias"
      [] at = "alias" -> "add2"
      [] at = "add2"  -> "exit"
      [] at = "tag1"  -> "tag2"
      [] at = "tag2"  -> "exit"

\* The statement that follows statement `at` in the block: there is no
\* loop and no branch, control falls from each statement to the next.
NextStmt(at) ==
    LET i == CHOOSE k \in 1..(Len(StmtOrder) - 1) : StmtOrder[k] = at
    IN  StmtOrder[i + 1]

\* A statement that swallows the exception of its call and goes on, as a
\* try/except around each call would.
BodyCallSwallow(r, at, call) ==
    /\ calls' = [calls EXCEPT ![r] = Append(@, call)]
    /\ \E raised \in BOOLEAN :
          /\ pc' = [pc EXCEPT ![r] = NextStmt(at)]
          /\ exc' = [exc EXCEPT ![r] = IF raised THEN at ELSE @]
    /\ UNCHANGED <<writer, outcome>>

\* A statement outside any with block: an exception ends the script at once.
BodyCallNoWith(r, at, call) ==
    /\ calls' = [calls EXCEPT ![r] = Append(@, call)]
    /\ \E raised \in BOOLEAN :
          IF raised
          THEN /\ pc' = [pc EXCEPT ![r] = "done"]
               /\ exc' = [exc EXCEPT ![r] = at]
               /\ outcome' = [outcome EXCEPT ![r] = "error"]
          ELSE /\ pc' = [pc EXCEPT ![r] = NextStmt(at)]
               /\ UNCHANGED <<exc, outcome>>
    /\ UNCHANGED writer

\* One statement of the with block, run r being at statement `at`: the call
\* is issued; if it returns, control goes to the next statement, and if it
\* raises, control leaves the block with the exception in flight (nothing
\* in the script catches it).
BodyCall(r, at, call) ==
    /\ calls' = [calls EXCEPT ![r] = Append(@, call)]
    /\ \E raised \in BOOLEAN :
          IF raised
          THEN /\ pc' = [pc EXCEPT ![r] = "exit"]
               /\ exc' = [exc EXCEPT ![r] = at]
          ELSE /\ pc' = [pc EXCEPT ![r] = NextStmt(at)]
               /\ UNCHANGED exc
    /\ UNCHANGED <<writer, outcome>>

\* with slob.create('test.slob') as w: the writer is created and entered.
\* If create raises, there is no writer and the script ends with the error.
Create(r) ==
    /\ pc[r] = "create"
    /\ calls' = [calls EXCEPT ![r] = Append(@, CreateCall)]
    /\ \E raised \in BOOLEAN :
          IF raised
          THEN /\ pc' = [pc EXCEPT ![r] = "done"]
               /\ exc' = [exc EXCEPT ![r] = "create"]
               /\ outcome' = [outcome EXCEPT ![r] = "error"]
               /\ UNCHANGED writer
          ELSE /\ pc' = [pc EXCEPT ![r] = StmtOrder[1]]
               /\ writer' = [writer EXCEPT ![r] = "open"]
               /\ UNCHANGED <<exc, outcome>>

\* w.add('Hello, Earth!'.encode('utf-8'), 'earth', 'terra',
\*       content_type=PLAIN_TEXT)
Add1(r) ==
    /\ pc[r] = "add1"
    /\ BodyCall(r, "add1", Add1Call)

\* w.add_alias('земля', 'earth')
AddAlias(r) ==
    /\ pc[r] = "alias"
    /\ BodyCall(r, "alias", AliasCall)

\* The second add written twice.
Add2Twice(r) ==
    /\ pc[r] = "add2"
    /\ calls' = [calls EXCEPT ![r] = Append(Append(@, Add2Call), Add2Call)]
    /\ pc' = [pc EXCEPT ![r] = NextStmt("add2")]
    /\ UNCHANGED <<exc, writer, outcome>>

\* w.add('Hello, Mars!'.encode('utf-8'), 'mars', content_type=PLAIN_TEXT)
Add2(r) ==
    /\ pc[r] = "add2"
    /\ BodyCall(r, "add2", Add2Call)

\* The first tag taking its value from outside the script (an argument, the
\* environment), which may differ from run to run.
Tag1FromInput(r) ==
    /\ pc[r] = "tag1"
    /\ \E v \in {Tag1Value, Tag2Value} :
          BodyCall(r, "tag1", MkCall("tag", <<Tag1Name, v>>, {}))

\* w.tag("sometag", "xyz")
Tag1(r) ==
    /\ pc[r] = "tag1"
    /\ BodyCall(r, "tag1", Tag1Call)

\* w.tag("some.other.tag", "abc")
Tag2(r) ==
    /\ pc[r] = "tag2"
    /\ BodyCall(r, "tag2", Tag2Call)

\* Leaving the with block, normally or with an exception in flight: the
\* writer's __exit__ is called once.  The slob writer's __exit__ finalizes
\* the file and does not suppress an exception, so an exception in flight
\* goes on out of the script; __exit__ may itself raise.
Exit(r) ==
    /\ pc[r] = "exit"
    /\ calls' = [calls EXCEPT ![r] = Append(@, ExitCall)]
    /\ writer' = [writer EXCEPT ![r] = "closed"]
    /\ pc' = [pc EXCEPT ![r] = "done"]
    /\ \E raised \in BOOLEAN :
          /\ exc' = [exc EXCEPT ![r] =
                        IF @ = "none" /\ raised THEN "exit" ELSE @]
          /\ outcome' = [outcome EXCEPT ![r] =
                        IF exc[r] # "none" \/ raised THEN "error" ELSE "ok"]

Step(r) ==
    \/ Create(r)
    \/ Add1(r)
    \/ AddAlias(r)
    \/ Add2(r)
    \/ Tag1(r)
    \/ Tag2(r)
    \/ Exit(r)

Next == \E r \in Runs : Step(r)

Spec == Init /\ [][Next]_vars

\* The interpreter runs every started script to its end.
FairSpec == Spec /\ \A r \in Runs : WF_vars(Step(r))

----------------------------------------------------------------------------
(* Reading a call log.                                                     *)

\* The values the statements below name, written out as code points (str)
\* or byte values (bytes).
StrTestSlob     == <<116,101,115,116,46,115,108,111,98>>
StrEarth        == <<101,97,114,116,104>>
StrTerra        == <<116,101,114,114,97>>
StrMars         == <<109,97,114,115>>
StrZemlya       == <<1079,1077,1084,1083,1103>>
StrSometag      == <<115,111,109,101,116,97,103>>
StrXyz          == <<120,121,122>>
StrSomeOtherTag == <<115,111,109,101,46,111,116,104,101,114,46,116,97,103>>
StrAbc          == <<97,98,99>>
StrPlainText    ==
    <<116,101,120,116,47,112,108,97,105,110,59,32,
      99,104,97,114,115,101,116,61,117,116,102,45,56>>
BytesHelloEarth == <<72,101,108,108,111,44,32,69,97,114,116,104,33>>
BytesHelloMars  == <<72,101,108,108,111,44,32,77,97,114,115,33>>

\* The six calls of a run in the order the statements below expect them.
ExpectedCalls ==
    << [op |-> "create", args |-> <<StrTestSlob>>, kwargs |-> {}],
       [op |-> "add", args |-> <<BytesHelloEarth, StrEarth, StrTerra>>,
        kwargs |-> {<<"content_type", StrPlainText>>}],
       [op |-> "add_alias", args |-> <<StrZemlya, StrEarth>>, kwargs |-> {}],
       [op |-> "add", args |-> <<BytesHelloMars, StrMars>>,
        kwargs |-> {<<"content_type", StrPlainText>>}],
       [op |-> "tag", args |-> <<StrSometag, StrXyz>>, kwargs |-> {}],
       [op |-> "tag", args |-> <<StrSomeOtherTag, StrAbc>>, kwargs |-> {}] >>

CloseCall == [op |-> "__exit__", args |-> <<>>, kwargs |-> {}]

Range(seq) == {seq[i] : i \in DOMAIN seq}

\* How many calls of the log are calls of `op`.
Count(log, op) == Cardinality({i \in DOMAIN log : log[i].op = op})

IsBodyCall(c) == c.op \notin {"create", "__exit__"}
IsScriptCall(c) == c.op # "__exit__"

\* The calls between opening and closing the writer.
BodyOf(log) == SelectSeq(log, IsBodyCall)

\* The calls the script itself writes (all but the with statement's close).
RequestsOf(log) == SelectSeq(log, IsScriptCall)

IsPrefix(s, t) == Len(s) <= Len(t) /\ s = SubSeq(t, 1, Len(s))

\* The keys an add call registers: its positional arguments after the blob.
KeysOfAdd(c) == Range(Tail(c.args))

\* The keys added directly by the first n calls of the log.
AddedKeys(log, n) ==
    UNION {KeysOfAdd(log[i]) : i \in {j \in 1..n : log[j].op = "add"}}

\* The add calls of the log that register the key.
EntriesOf(log, key) ==
    {i \in DOMAIN log : log[i].op = "add" /\ key \in KeysOfAdd(log[i])}

\* The tags set after the first n calls, a later tag call replacing an
\* earlier one of the same name.
RECURSIVE TagsAfter(_, _)
TagsAfter(log, n) ==
    IF n = 0 THEN {}
    ELSE IF log[n].op = "tag"
         THEN {t \in TagsAfter(log, n - 1) : t[1] # log[n].args[1]}
                  \cup {<<log[n].args[1], log[n].args[2]>>}
         ELSE TagsAfter(log, n - 1)

\* Run r ran to its end and every call returned.
Complete(r) == pc[r] = "done" /\ outcome[r] = "ok"

----------------------------------------------------------------------------
(* C1: a complete run opens exactly one writer with create and issues on   *)
(* it exactly two add calls, one add_alias call and two tag calls, and no  *)
(* other writer operation (besides the closing of the writer); no run, at  *)
(* any point, has issued more than that.                                   *)
C1_OperationCounts ==
    \A r \in Runs :
        /\ Count(calls[r], "create") <= 1
        /\ Count(calls[r], "add") <= 2
        /\ Count(calls[r], "add_alias") <= 1
        /\ Count(calls[r], "tag") <= 2
        /\ \A i \in DOMAIN calls[r] :
              calls[r][i].op \in {"create", "add", "add_alias", "tag", "__exit__"}
        /\ Complete(r) =>
              /\ Count(calls[r], "create") = 1
              /\ Count(calls[r], "add") = 2
              /\ Count(calls[r], "add_alias") = 1
              /\ Count(calls[r], "tag") = 2
              /\ Len(BodyOf(calls[r])) = 5

C1_Witness ==
    \E r \in Runs : Complete(r) /\ Count(calls[r], "tag") = 2

(* C2: the calls happen in one fixed order: create('test.slob'), add of    *)
(* 'Hello, Earth!' under 'earth' and 'terra', add_alias('земля', 'earth'), *)
(* add of 'Hello, Mars!' under 'mars', tag('sometag', 'xyz'),              *)
(* tag('some.other.tag', 'abc'), then the close.  At every point the log   *)
(* is a prefix of that sequence, possibly followed by the close as its     *)
(* last entry; nothing precedes create and nothing follows the close; a    *)
(* complete run's log is the whole sequence and the close.                 *)
C2_FixedOrder ==
    \A r \in Runs :
        /\ \E n \in 0..Len(ExpectedCalls) :
              \/ calls[r] = SubSeq(ExpectedCalls, 1, n)
              \/ n >= 1 /\ calls[r] = Append(SubSeq(ExpectedCalls, 1, n), CloseCall)
        /\ Complete(r) => calls[r] = Append(ExpectedCalls, CloseCall)
        /\ writer[r] = "closed" =>
              pc[r] = "done" /\ calls[r][Len(calls[r])] = CloseCall
        /\ writer[r] = "none" => Len(calls[r]) <= 1

C2_Witness ==
    \E r \in Runs : calls[r] = Append(ExpectedCalls, CloseCall)

C4_AddedContent ==
    \A r \in Runs :
        Complete(r) =>
            LET log == calls[r] IN
            /\ AddedKeys(log, Len(log)) = {StrEarth, StrTerra, StrMars}
            /\ \E i, j \in DOMAIN log :
                  /\ i < j
                  /\ EntriesOf(log, StrEarth) = {i}
                  /\ EntriesOf(log, StrTerra) = {i}
                  /\ EntriesOf(log, StrMars) = {j}
                  /\ log[i].args = <<BytesHelloEarth, StrEarth, StrTerra>>
                  /\ log[j].args = <<BytesHelloMars, StrMars>>
                  /\ log[i].args[1] # log[j].args[1]
            /\ \A i \in DOMAIN log :
                  log[i].op = "add" =>
                      log[i].kwargs = {<<"content_type", StrPlainText>>}

C4_Witness ==
    \E r \in Runs :
        /\ Complete(r)
        /\ Cardinality(AddedKeys(calls[r], Len(calls[r]))) = 3

(* C5: the two tag calls set two distinct names, 'sometag' to 'xyz' and    *)
(* 'some.other.tag' to 'abc'; the second does not replace the first, so    *)
(* after a complete run both tags are set with those values.               *)
C5_BothTagsSet ==
    \A r \in Runs :
        Complete(r) =>
            /\ TagsAfter(calls[r], Len(calls[r]))
                  = {<<StrSometag, StrXyz>>, <<StrSomeOtherTag, StrAbc>>}
            /\ \A i, j \in DOMAIN calls[r] :
                  (i # j /\ calls[r][i].op = "tag" /\ calls[r][j].op = "tag")
                      => calls[r][i].args[1] # calls[r][j].args[1]

C5_Witness ==
    \E r \in Runs :
        /\ Complete(r)
        /\ Cardinality(TagsAfter(calls[r], Len(calls[r]))) = 2

(* C6: the alias is never dangling when it is added: every add_alias call  *)
(* is add_alias('земля', 'earth'), its target has been added by an earlier *)
(* add call of the same run, and its key is none of the directly added     *)
(* keys of the run.                                                        *)
C6_AliasNotDangling ==
    \A r \in Runs :
        \A i \in DOMAIN calls[r] :
            calls[r][i].op = "add_alias" =>
                /\ calls[r][i].args = <<StrZemlya, StrEarth>>
                /\ calls[r][i].args[2] \in AddedKeys(calls[r], i - 1)
                /\ calls[r][i].args[1] \notin AddedKeys(calls[r], Len(calls[r]))

C6_Witness ==
    \E r \in Runs :
        /\ Count(calls[r], "add_alias") = 1
        /\ Count(calls[r], "add") = 2

(* C7: the writer is closed exactly once on every path out of the block:   *)
(* never more than once, after the last tag call on a normal run and also  *)
(* when an add, add_alias or tag call raises; no run ends with a writer    *)
(* that was opened and not closed.                                         *)
C7_ClosedExactlyOnce ==
    \A r \in Runs :
        /\ Count(calls[r], "__exit__") <= 1
        /\ writer[r] = "closed" <=> Count(calls[r], "__exit__") = 1
        /\ writer[r] = "none" => Count(calls[r], "__exit__") = 0
        /\ pc[r] = "done" => writer[r] # "open"
        /\ (pc[r] = "done" /\ exc[r] # "create") => writer[r] = "closed"

C7_Witness ==
    \E r \in Runs :
        /\ pc[r] = "done"
        /\ exc[r] = "add2"
        /\ writer[r] = "closed"
        /\ Count(calls[r], "__exit__") = 1

(* C8: every run terminates, and a run in which every library call         *)
(* returned has issued exactly five operations between opening and closing *)
(* the writer, five different ones: none repeated, none skipped.           *)
C8_FiveOperations ==
    \A r \in Runs :
        (pc[r] = "done" /\ exc[r] = "none") =>
            /\ Len(BodyOf(calls[r])) = 5
            /\ Cardinality(Range(BodyOf(calls[r]))) = 5
            /\ Len(calls[r]) = 7

C8_TerminatesAfterFive ==
    /\ <>(\A r \in Runs : pc[r] = "done")
    /\ []C8_FiveOperations

C8_Witness ==
    \E r \in Runs :
        /\ pc[r] = "done"
        /\ exc[r] = "none"
        /\ Len(BodyOf(calls[r])) = 5

(* C9: the script takes no input, so any two runs ask the same of the      *)
(* library: of the calls the two have written, the shorter list is the     *)
(* beginning of the longer, call by call with identical arguments, and two *)
(* complete runs have identical logs.                                      *)
C9_RunsAgree ==
    \A r1, r2 \in Runs :
        /\ \/ IsPrefix(RequestsOf(calls[r1]), RequestsOf(calls[r2]))
           \/ IsPrefix(RequestsOf(calls[r2]), RequestsOf(calls[r1]))
        /\ (Complete(r1) /\ Complete(r2)) => calls[r1] = calls[r2]

C9_Witness ==
    \E r1, r2 \in Runs :
        /\ r1 # r2
        /\ Complete(r1)
        /\ pc[r2] = "done"
        /\ exc[r2] = "alias"

====
